---- MODULE Spec2Model ----
(***************************************************************************)
(* AI CV Helper: the CV validator (app/llm/tools.py), the model registry   *)
(* (app/llm/modelRegistry.py, modelConfiguration.py), the feedback chains  *)
(* (app/llm/chains.py), the API routes (app/api/routes.py) and the UI      *)
(* handlers (app/ui/handlers.py, services.py).                             *)
(*                                                                         *)
(* Texts are strings; a character is a string of length 1.                 *)
(***************************************************************************)
EXTENDS Integers, Sequences, FiniteSets, TLC

VARIABLES
    \* ---- one call of is_valid_cv (specification SpecValidate) ----
    text,            \* the argument of is_valid_cv
    pc,              \* "call" before the call, "returned" after it
    is_valid,        \* the value is_valid_cv returned
    scored,          \* TRUE when the call got past the length check
    cv_score,        \* local cv_score at the return statement
    non_cv_score,    \* local non_cv_score at the return statement
    \* ---- the running program (specification Spec) ----
    registry,        \* MODEL_REGISTRY
    vectorstore,     \* the page_content of the documents of the vector store
    cv_memory,       \* the messages of the conversation memory
    embedding,       \* the embedding the vector store was built with
    validated,       \* the texts on which is_valid_cv has returned True
    last,            \* what the latest call did
    state_manager,   \* the fields of the UIStateManager
    widgets,         \* the values of the widgets the handlers write
    process,         \* "importing" while main.py runs its imports, then "serving"
    index_builds,    \* the number of calls of initialize_rag
    \* ---- calls of get_relevant_guidelines (specification SpecQuery) ----
    searches,        \* the latest two calls: query, k and the texts returned
    \* ---- feedback requests in flight (specification SpecConcurrent) ----
    requests,        \* for each request its position in get_feedback and its locals
    \* ---- the Ollama client of the installation (specification SpecLive) ----
    ollama_client    \* what the client does with the request_timeout of a model

validate_vars == <<text, pc, is_valid, scored, cv_score, non_cv_score>>

startup_vars == <<process, index_builds>>

program_vars ==
    <<registry, vectorstore, cv_memory, embedding, validated, last, state_manager, widgets,
      startup_vars>>

\* what the handlers of Spec leave alone
other_vars == <<validate_vars, searches, requests, ollama_client>>

vars == <<validate_vars, program_vars, searches, requests, ollama_client>>

(***************************************************************************)
(* Characters and the str methods is_valid_cv uses.                        *)
(***************************************************************************)
Char(s, i) == SubSeq(s, i, i)

LowerCase == "abcdefghijklmnopqrstuvwxyz"
UpperCase == "ABCDEFGHIJKLMNOPQRSTUVWXYZ"
DigitChars == "0123456789"

CharsOf(s) == {Char(s, i) : i \in 1..Len(s)}

\* str.isspace for the characters of the model's alphabet
WhitespaceSet == {" ", "\n", "\t", "\r"}

\* \d
DigitSet == CharsOf(DigitChars)

\* \w : letters, digits and the underscore
WordSet == CharsOf(LowerCase) \cup CharsOf(UpperCase) \cup DigitSet \cup {"_"}

\* [-.\s]
SeparatorSet == {"-", "."} \cup WhitespaceSet

UpperSet == CharsOf(UpperCase)

LowerMap == [c \in UpperSet |-> Char(LowerCase, CHOOSE i \in 1..26 : Char(UpperCase, i) = c)]

lower_char(c) == IF c \in UpperSet THEN LowerMap[c] ELSE c

\* the characters i..j of s in lower case, computed half by half
RECURSIVE lower_from(_, _, _)
lower_from(s, i, j) ==
    IF i > j THEN ""
    ELSE IF i = j THEN lower_char(Char(s, i))
    ELSE lower_from(s, i, (i + j) \div 2) \o lower_from(s, (i + j) \div 2 + 1, j)

\* str.lower()
lower(s) == lower_from(s, 1, Len(s))

RECURSIVE lstrip_index(_, _)
lstrip_index(s, i) ==
    IF i <= Len(s) /\ Char(s, i) \in WhitespaceSet THEN lstrip_index(s, i + 1) ELSE i

RECURSIVE rstrip_index(_, _)
rstrip_index(s, j) ==
    IF j >= 1 /\ Char(s, j) \in WhitespaceSet THEN rstrip_index(s, j - 1) ELSE j

\* str.strip(): without its leading and trailing whitespace
strip(s) == SubSeq(s, lstrip_index(s, 1), rstrip_index(s, Len(s)))

(***************************************************************************)
(* Regular expressions (the subset of Python's re the indicators use).     *)
(* A pattern is a tree; Ends(re, t, S) is the set of positions (number of  *)
(* characters consumed) at which a match of re can end when it starts at a *)
(* position of S.  re.search succeeds iff some start has some end.         *)
(***************************************************************************)
Lit(s)      == [kind |-> "lit",  str |-> s,  sub |-> <<>>,  n |-> 0]
ClassW      == [kind |-> "w",    str |-> "", sub |-> <<>>,  n |-> 0]
ClassD      == [kind |-> "d",    str |-> "", sub |-> <<>>,  n |-> 0]
ClassSep    == [kind |-> "sep",  str |-> "", sub |-> <<>>,  n |-> 0]
Boundary    == [kind |-> "b",    str |-> "", sub |-> <<>>,  n |-> 0]
Cat(rs)     == [kind |-> "cat",  str |-> "", sub |-> rs,    n |-> 0]
Alt(rs)     == [kind |-> "alt",  str |-> "", sub |-> rs,    n |-> 0]
Plus(r)     == [kind |-> "plus", str |-> "", sub |-> <<r>>, n |-> 0]
Opt(r)      == [kind |-> "opt",  str |-> "", sub |-> <<r>>, n |-> 0]
Rep(r, k)   == [kind |-> "rep",  str |-> "", sub |-> <<r>>, n |-> k]

IsWordAt(t, i) == i >= 1 /\ i <= Len(t) /\ Char(t, i) \in WordSet

\* \b at position p: exactly one of the characters around p is a word character
IsBoundary(t, p) == IsWordAt(t, p) # IsWordAt(t, p + 1)

\* a subject string with its \b positions, found once for all the patterns
Subject(t) == [str |-> t, boundaries |-> {p \in 0..Len(t) : IsBoundary(t, p)}]

ClassSet(kind) ==
    CASE kind = "w" -> WordSet
      [] kind = "d" -> DigitSet
      [] kind = "sep" -> SeparatorSet

RECURSIVE Ends(_, _, _)
RECURSIVE EndsCat(_, _, _, _)
RECURSIVE EndsRep(_, _, _, _)
RECURSIVE EndsPlus(_, _, _, _)

EndsCat(rs, i, T, S) ==
    IF i > Len(rs) \/ S = {} THEN S ELSE EndsCat(rs, i + 1, T, Ends(rs[i], T, S))

EndsRep(r, k, T, S) ==
    IF k = 0 \/ S = {} THEN S ELSE EndsRep(r, k - 1, T, Ends(r, T, S))

\* frontier: ends reached by the last repetition; acc: every end reached so far
EndsPlus(r, T, frontier, acc) ==
    LET next == Ends(r, T, frontier) \ acc
    IN  IF next = {} THEN acc ELSE EndsPlus(r, T, next, acc \cup next)

Ends(re, T, S) ==
    CASE re.kind = "lit" ->
            {p + Len(re.str) : p \in {q \in S : /\ q + Len(re.str) <= Len(T.str)
                                                /\ SubSeq(T.str, q + 1, q + Len(re.str)) = re.str}}
      [] re.kind \in {"w", "d", "sep"} ->
            {p + 1 : p \in {q \in S : /\ q < Len(T.str)
                                      /\ Char(T.str, q + 1) \in ClassSet(re.kind)}}
      [] re.kind = "b" -> S \cap T.boundaries
      [] re.kind = "cat" -> EndsCat(re.sub, 1, T, S)
      [] re.kind = "alt" -> UNION {Ends(re.sub[i], T, S) : i \in 1..Len(re.sub)}
      [] re.kind = "opt" -> S \cup Ends(re.sub[1], T, S)
      [] re.kind = "rep" -> EndsRep(re.sub[1], re.n, T, S)
      [] re.kind = "plus" ->
            LET first == Ends(re.sub[1], T, S)
            IN  IF first = {} THEN {} ELSE EndsPlus(re.sub[1], T, first, first)

\* the start positions of the matches of re in the subject
MatchStarts(re, T) == {p \in 0..Len(T.str) : Ends(re, T, {p}) # {}}

\* re.search(pattern, t) is not None
re_search(re, T) == Ends(re, T, 0..Len(T.str)) # {}

\* \b(w1|w2|...)\b
Words(alts) == Cat(<<Boundary, Alt(alts), Boundary>>)

(***************************************************************************)
(* is_valid_cv (app/llm/tools.py).                                         *)
(***************************************************************************)
\* the minimum trimmed length of a CV
MIN_CV_LENGTH == 50

\* the least cv_score of a valid CV
MIN_CV_INDICATORS == 2

\* r'\b\w+@\w+\.\w+\b'
EmailPattern ==
    Cat(<<Boundary, Plus(ClassW), Lit("@"), Plus(ClassW), Lit("."), Plus(ClassW), Boundary>>)

\* r'\b\d{3}[-.\s]?\d{3}[-.\s]?\d{4}\b'
PhonePattern ==
    Cat(<<Boundary, Rep(ClassD, 3), Opt(ClassSep), Rep(ClassD, 3), Opt(ClassSep),
          Rep(ClassD, 4), Boundary>>)

cv_indicators == <<
    EmailPattern,
    PhonePattern,
    Words(<<Lit("experience"), Lit("work experience"), Lit("employment")>>),
    Words(<<Lit("education"), Lit("academic"), Lit("qualification"), Lit("degree")>>),
    Words(<<Lit("skills"), Lit("technical skills"), Lit("competencies")>>),
    Words(<<Lit("contact"), Lit("personal"), Lit("profile")>>),
    Words(<<Lit("resume"), Lit("curriculum vitae"), Lit("cv")>>),
    Words(<<Lit("university"), Lit("college"), Lit("bachelor"), Lit("master"), Lit("phd")>>),
    Words(<<Lit("company"), Lit("corporation"), Lit("organization"), Lit("firm")>>),
    Words(<<Lit("manager"), Lit("developer"), Lit("engineer"), Lit("analyst"),
            Lit("specialist")>>),
    Words(<<Lit("responsible for"), Lit("managed"), Lit("led"), Lit("developed"),
            Lit("created")>>) >>

non_cv_indicators == <<
    Words(<<Lit("chapter"), Cat(<<Lit("page "), Plus(ClassD)>>), Lit("table of contents")>>),
    Words(<<Lit("article"), Lit("abstract"), Lit("introduction"), Lit("conclusion")>>),
    Words(<<Lit("dear"), Lit("sincerely"), Lit("yours faithfully")>>),
    Words(<<Lit("invoice"), Lit("receipt"), Lit("bill"), Lit("payment")>>),
    Words(<<Lit("contract"), Lit("agreement"), Lit("terms and conditions")>>),
    Words(<<Lit("manual"), Lit("instructions"), Lit("tutorial"), Lit("guide")>>) >>

\* a scoring loop that adds one per match instead of one per pattern
RECURSIVE score_loop_per_match(_, _, _)
score_loop_per_match(patterns, T, i) ==
    IF i > Len(patterns) THEN 0
    ELSE Cardinality(MatchStarts(patterns[i], T)) + score_loop_per_match(patterns, T, i + 1)

\* the scoring loop: for pattern in patterns: if re.search(pattern, text_lower): score += 1
RECURSIVE score_loop(_, _, _)
score_loop(patterns, T, i) ==
    IF i > Len(patterns) THEN 0
    ELSE (IF re_search(patterns[i], T) THEN 1 ELSE 0) + score_loop(patterns, T, i + 1)

\* a length check on the untrimmed text
too_short_unstripped(s) == s = "" \/ Len(s) < MIN_CV_LENGTH

\* a length check that also rejects a trimmed length of exactly 50
too_short_inclusive(s) == s = "" \/ Len(strip(s)) <= MIN_CV_LENGTH

\* if not text or len(text.strip()) < 50: return False
too_short(s) == s = "" \/ Len(strip(s)) < MIN_CV_LENGTH

\* a decision that accepts equal scores
decision_accepting_ties(cv, non_cv) == cv >= MIN_CV_INDICATORS /\ non_cv <= cv

\* return cv_score >= 2 and non_cv_score < cv_score
decision(cv, non_cv) == cv >= MIN_CV_INDICATORS /\ non_cv < cv

\* one call: the returned value and the locals at the return statement
is_valid_cv(s) ==
    IF too_short(s)
    THEN [valid |-> FALSE, scored |-> FALSE, cv_score |-> 0, non_cv_score |-> 0]
    ELSE LET text_lower == Subject(lower(s))
             cv == score_loop(cv_indicators, text_lower, 1)
             non_cv == score_loop(non_cv_indicators, text_lower, 1)
         IN  [valid |-> decision(cv, non_cv), scored |-> TRUE,
              cv_score |-> cv, non_cv_score |-> non_cv]

(***************************************************************************)
(* The model registry (app/llm/modelRegistry.py, modelConfiguration.py).   *)
(***************************************************************************)
\* the members of the ModelTask enumeration (app/llm/modelTask.py)
ModelTaskNames == {"GRAMMAR", "EXPERIENCE", "LAYOUT"}

ModelTask == {[cls |-> "ModelTask", name |-> n] : n \in ModelTaskNames}

GRAMMAR == [cls |-> "ModelTask", name |-> "GRAMMAR"]
EXPERIENCE == [cls |-> "ModelTask", name |-> "EXPERIENCE"]
LAYOUT == [cls |-> "ModelTask", name |-> "LAYOUT"]

\* what a caller can hand to get_model_for_task: a ModelTask member, a plain
\* string, or a member of some other enumeration
TaskIdentifiers ==
    ModelTask \cup {[cls |-> "str", name |-> "unknown-task"],
                    [cls |-> "str", name |-> "grammar"],
                    [cls |-> "OtherEnum", name |-> "SUMMARY"]}

\* only enumeration members have a .name attribute; a str has none
has_name_attribute(task) == task.cls # "str"

\* OllamaModelConfig(name=..., ...) with the defaults of the class
OllamaModelConfig(fields) ==
    [name |-> fields.name,
     temperature |-> IF "temperature" \in DOMAIN fields THEN fields.temperature ELSE "0.1",
     top_p |-> IF "top_p" \in DOMAIN fields THEN fields.top_p ELSE "0.9",
     top_k |-> IF "top_k" \in DOMAIN fields THEN fields.top_k ELSE "40",
     repeat_penalty |-> IF "repeat_penalty" \in DOMAIN fields THEN fields.repeat_penalty
                        ELSE "1.1",
     stop |-> IF "stop" \in DOMAIN fields THEN fields.stop ELSE <<>>]

\* the stop sequence of the layout task, three backquotes (a TLA+ string cannot
\* hold a backquote)
CODE_FENCE == "<three backquotes>"

MODEL_REGISTRY ==
    [t \in ModelTask |->
        CASE t = GRAMMAR ->
                OllamaModelConfig([name |-> "codellama:7b-instruct", temperature |-> "0.2",
                                   top_p |-> "0.1", top_k |-> "40",
                                   repeat_penalty |-> "1.2", stop |-> <<>>])
          [] t = EXPERIENCE ->
                OllamaModelConfig([name |-> "codellama:7b-instruct", temperature |-> "0.1",
                                   top_p |-> "0.2", top_k |-> "40",
                                   repeat_penalty |-> "1.1", stop |-> <<>>])
          [] t = LAYOUT ->
                OllamaModelConfig([name |-> "wizardcoder:7b-python", temperature |-> "0.3",
                                   stop |-> <<CODE_FENCE>>])]

\* OllamaModelConfig.create_model: the keyword arguments OllamaLLM is built with
create_model(config) ==
    [model |-> config.name,
     base_url |-> "http://localhost:11434",
     temperature |-> config.temperature,
     request_timeout |-> "120",
     context_window |-> "4096",
     verbose |-> TRUE]

\* the OllamaLLM of a call that created none
NoModel == [model |-> ""]

\* get_model_for_task: the exception it raises ("" for none), the model it
\* returns and the number of model instances it created
get_model_for_task(task, reg) ==
    IF ~has_name_attribute(task)
    THEN [raised |-> "AttributeError: 'str' object has no attribute 'name'",
          model |-> NoModel, created |-> 0]
    ELSE IF task \notin DOMAIN reg
    THEN [raised |-> "KeyError: No model configured for task: "
                      \o task.cls \o "." \o task.name,
          model |-> NoModel, created |-> 0]
    ELSE [raised |-> "", model |-> create_model(reg[task]), created |-> 1]

(***************************************************************************)
(* The guideline index and the feedback chains (app/llm/chains.py).        *)
(***************************************************************************)
\* the guideline corpus
cv_guidelines == <<
    "CVs should be concise and ideally one to two pages long.",
    "Use bullet points to highlight achievements and responsibilities.",
    "Include quantifiable achievements when possible (e.g., 'Increased sales by 30%').",
    "Customize your CV for each job application.",
    "Use active voice and action verbs (e.g., 'managed', 'led', 'developed').",
    "Ensure consistent formatting throughout the document.",
    "Proofread for grammar and spelling errors.",
    "Include relevant keywords from the job description.",
    "Reverse chronological order is standard for work experience.",
    "Include contact information at the top of your CV.",
    "Avoid personal pronouns (I, me, my).",
    "Focus on relevant experience and skills for the position.",
    "Use a professional email address.",
    "Only include relevant education details.",
    "Highlight transferable skills if changing careers." >>

\* RecursiveCharacterTextSplitter(chunk_size=100, chunk_overlap=0)
CHUNK_SIZE == 100

\* "\n".join(strings)
RECURSIVE join_from(_, _, _)
join_from(sep, strings, i) ==
    IF i > Len(strings) THEN ""
    ELSE IF i = Len(strings) THEN strings[i]
    ELSE strings[i] \o sep \o join_from(sep, strings, i + 1)

join(sep, strings) == join_from(sep, strings, 1)

RECURSIVE concat_from(_, _)
concat_from(strings, i) ==
    IF i > Len(strings) THEN "" ELSE strings[i] \o concat_from(strings, i + 1)

RECURSIVE total_len(_, _)
total_len(strings, i) ==
    IF i > Len(strings) THEN 0 ELSE Len(strings[i]) + total_len(strings, i + 1)

\* the text splitter cuts the file at each "\n" and keeps the separator at the
\* start of the piece that follows it
split_keeping_separator(lines) ==
    [i \in 1..Len(lines) |-> IF i = 1 THEN lines[i] ELSE "\n" \o lines[i]]

\* the splitter's merge of the pieces: a piece joins the current chunk unless
\* the chunk would grow beyond chunk_size; a finished chunk is stripped
RECURSIVE merge_splits(_, _, _, _)
merge_splits(pieces, i, current, chunks) ==
    IF i > Len(pieces)
    THEN IF current = <<>> THEN chunks ELSE Append(chunks, strip(concat_from(current, 1)))
    ELSE IF total_len(current, 1) + Len(pieces[i]) > CHUNK_SIZE /\ current # <<>>
    THEN merge_splits(pieces, i + 1, <<pieces[i]>>,
                      Append(chunks, strip(concat_from(current, 1))))
    ELSE merge_splits(pieces, i + 1, Append(current, pieces[i]), chunks)

\* initialize_rag: the page_content of the documents in the vector store
initialize_rag == merge_splits(split_keeping_separator(cv_guidelines), 1, <<>>, <<>>)

\* the retrieval query of each feedback function
GRAMMAR_QUERY == "grammar mistakes in CV"
EXPERIENCE_QUERY == "describing work experience in CV"
LAYOUT_QUERY == "CV layout and structure"

\* a query that is none of the phrases of the feedback functions
OTHER_QUERY == "references and hobbies"

Queries == <<GRAMMAR_QUERY, EXPERIENCE_QUERY, LAYOUT_QUERY, OTHER_QUERY>>

query_number(query) == CHOOSE i \in 1..Len(Queries) : Queries[i] = query

\* The embedding model is outside the repository: each embedding gives every
\* pair of a query and a stored chunk a distance; the smaller, the more similar.
Embeddings == {"distinct distances", "with ties"}

Distance(emb, q, i) ==
    IF emb = "distinct distances" THEN (7 * i + 3 * q) % 11 ELSE (i * (q + 1)) % 4

\* the stored chunk that comes next in the ranking: the nearest one not yet
\* taken, the earliest stored one among equally near ones
nearest(emb, q, candidates) ==
    CHOOSE i \in candidates :
        \A j \in candidates :
            \/ Distance(emb, q, i) < Distance(emb, q, j)
            \/ (Distance(emb, q, i) = Distance(emb, q, j) /\ i <= j)

RECURSIVE ranked(_, _, _, _)
ranked(emb, q, candidates, k) ==
    IF k = 0 \/ candidates = {} THEN <<>>
    ELSE LET i == nearest(emb, q, candidates)
         IN  <<i>> \o ranked(emb, q, candidates \ {i}, k - 1)

\* the default of get_relevant_guidelines' parameter k
DEFAULT_K == 3

\* a search that returns the first k stored chunks, whatever the query
similarity_search_unranked(vs, emb, query, k) ==
    [n \in 1..(IF k < Len(vs) THEN k ELSE Len(vs)) |-> n]

\* the rankings of the searches of the index built at import, computed once
DefaultRankings ==
    [emb \in Embeddings |->
        [q \in 1..Len(Queries) |->
            [k \in 1..Len(initialize_rag) |->
                ranked(emb, q, 1..Len(initialize_rag), k)]]]

\* vectorstore.similarity_search(query, k): the indices of the k nearest chunks
similarity_search(vs, emb, query, k) ==
    LET q == query_number(query)
    IN  IF Len(vs) = Len(initialize_rag)
        THEN DefaultRankings[emb][q][IF k < Len(vs) THEN k ELSE Len(vs)]
        ELSE ranked(emb, q, 1..Len(vs), k)

\* get_relevant_guidelines(query, k): [doc.page_content for doc in docs]
get_relevant_guidelines(vs, emb, query, k) ==
    LET docs == similarity_search(vs, emb, query, k)
    IN  [n \in 1..Len(docs) |-> vs[docs[n]]]

\* the pieces of a PromptTemplate: literal text and input variables
Text(s) == [var |-> "", lit |-> s]
Var(v) == [var |-> v, lit |-> ""]

\* PromptTemplate of get_grammar_feedback (lines 141-154)
grammar_template == <<
    Text("\n        You are a detail-oriented and helpful CV coach. You specialize in improving grammar and language use.\n        \n        Review the CV below and provide constructive feedback on grammar, spelling, and language use.\n        Focus on clarity and professionalism. Be specific and point out exact issues.\n        \n        Reference these CV writing guidelines:\n        "),
    Var("guidelines"),
    Text("\n        \n        CV TEXT:\n        "),
    Var("cv_text"),
    Text("\n        \n        GRAMMAR AND LANGUAGE FEEDBACK:\n        ") >>

\* PromptTemplate of get_experience_feedback (lines 188-201)
experience_template == <<
    Text("\n        You are a detail-oriented and helpful CV coach. You specialize in improving work experience descriptions.\n        \n        Review the CV below and provide constructive feedback on how the work experience is presented.\n        Focus on achievements, action verbs, clarity, and relevance. Suggest specific improvements.\n        \n        Reference these CV writing guidelines:\n        "),
    Var("guidelines"),
    Text("\n        \n        CV TEXT:\n        "),
    Var("cv_text"),
    Text("\n        \n        EXPERIENCE SECTION FEEDBACK:\n        ") >>

\* PromptTemplate of get_layout_feedback (lines 236-249)
layout_template == <<
    Text("\n        You are a detail-oriented and helpful CV coach. You specialize in improving CV layout and structure.\n        \n        Review the CV below and provide constructive feedback on its organization, section order, \n        and overall structure. Suggest specific improvements to make the CV more effective.\n        \n        Reference these CV writing guidelines:\n        "),
    Var("guidelines"),
    Text("\n        \n        CV TEXT:\n        "),
    Var("cv_text"),
    Text("\n        \n        LAYOUT AND STRUCTURE FEEDBACK:\n        ") >>

\* PromptTemplate.format: each variable replaced by its value
RECURSIVE format_from(_, _, _)
format_from(template, values, i) ==
    IF i > Len(template) THEN ""
    ELSE (IF template[i].var = "" THEN template[i].lit ELSE values[template[i].var])
         \o format_from(template, values, i + 1)

format(template, values) == format_from(template, values, 1)

\* what the generation backend does with a call: it answers with an output or
\* fails
BackendOutputs == {"  The CV reads well.\n"}
BackendErrors == {"timeout", "unreachable endpoint", "malformed response"}

BackendOutcomes ==
    {[ok |-> TRUE, output |-> o, error |-> ""] : o \in BackendOutputs}
    \cup {[ok |-> FALSE, output |-> "", error |-> e] : e \in BackendErrors}

\* a predict that strips the backend's output
predict_stripping(model, template, values, outcome) ==
    [calls |-> <<[llm |-> model, prompt |-> format(template, values)]>>,
     raised |-> IF outcome.ok THEN "" ELSE outcome.error,
     response |-> IF outcome.ok THEN strip(outcome.output) ELSE ""]

\* a predict that calls the backend a second time when the first call fails
\* and answers with a fallback text
predict_retrying(model, template, values, outcome) ==
    LET call == [llm |-> model, prompt |-> format(template, values)]
    IN  IF outcome.ok
        THEN [calls |-> <<call>>, raised |-> "", response |-> outcome.output]
        ELSE [calls |-> <<call, call>>, raised |-> "",
              response |-> "Feedback is not available."]

\* chain.predict: one backend call with the model's parameters and the
\* rendered prompt; its output is returned as it is, its failure is raised
predict(model, template, values, outcome) ==
    [calls |-> <<[llm |-> model, prompt |-> format(template, values)]>>,
     raised |-> IF outcome.ok THEN "" ELSE outcome.error,
     response |-> IF outcome.ok THEN outcome.output ELSE ""]

\* the end of a feedback function: chain.predict with the model and the rendered
\* prompt, unless get_model_for_task has raised
run_chain(m, template, cv, guidelines_text, outcome) ==
    IF m.raised # ""
    THEN [raised |-> m.raised, response |-> "", calls |-> <<>>, created |-> m.created]
    ELSE predict(m.model, template, [cv_text |-> cv, guidelines |-> guidelines_text],
                 outcome)
         @@ [created |-> m.created]

\* the body the three feedback functions share: model, guidelines, prompt, chain
feedback_chain(task, query, template, cv, reg, vs, emb, outcome) ==
    run_chain(get_model_for_task(task, reg), template, cv,
              join("\n", get_relevant_guidelines(vs, emb, query, DEFAULT_K)), outcome)

get_grammar_feedback(cv, reg, vs, emb, outcome) ==
    feedback_chain(GRAMMAR, GRAMMAR_QUERY, grammar_template, cv, reg, vs, emb, outcome)

get_experience_feedback(cv, reg, vs, emb, outcome) ==
    feedback_chain(EXPERIENCE, EXPERIENCE_QUERY, experience_template, cv, reg, vs, emb,
                   outcome)

get_layout_feedback(cv, reg, vs, emb, outcome) ==
    feedback_chain(LAYOUT, LAYOUT_QUERY, layout_template, cv, reg, vs, emb, outcome)

(***************************************************************************)
(* The API routes (app/api/routes.py).                                     *)
(***************************************************************************)
endswith(s, suffix) ==
    Len(s) >= Len(suffix) /\ SubSeq(s, Len(s) - Len(suffix) + 1, Len(s)) = suffix

\* the texts of the requests: two CVs and a text that is not a CV
CvA == "Doe, john@email.com Experience: Software Developer "
CvB == "This is a test CV.\nI have experience in Python programming."
NotCv == "I have 5 years of experience in Python programming."

SampleTexts == {CvA, CvB, NotCv}

\* the texts of the feedback requests a client sends without an upload
RequestTexts == {CvA, NotCv}

\* is_valid_cv(t) for the texts of the requests, evaluated once
ValidityOfSamples == [t \in SampleTexts |-> is_valid_cv(t).valid]

validity(t) == ValidityOfSamples[t]

\* an uploaded file: its name, whether its text can be extracted, and the text
\* extraction yields
Files == {
    [filename |-> "cv.pdf",     parses |-> TRUE,  extracted |-> CvA],
    [filename |-> "Resume.TXT", parses |-> TRUE,  extracted |-> CvB],
    [filename |-> "notes.txt",  parses |-> TRUE,  extracted |-> NotCv],
    [filename |-> "broken.pdf", parses |-> FALSE, extracted |-> ""],
    [filename |-> "cv.docx",    parses |-> TRUE,  extracted |-> CvA] }

INVALID_CV_MESSAGE ==
    "This doesn't appear to be a valid CV/resume. Please upload a proper CV document so I can help you with feedback."

UNSUPPORTED_FORMAT_DETAIL == "Unsupported file format. Please upload a PDF or TXT file."

INVALID_TYPE_DETAIL == "Invalid feedback type. Supported types: grammar, experience, layout"

\* str(HTTPException(status_code=400, detail=d))
http_exception_400(d) == "400: " \o d

\* upload_cv: the response, whether is_valid_cv was evaluated, and whether the
\* handler's temporary file still exists when it returns
\* an upload_cv that accepts whatever text it has extracted
upload_cv_accepting(file) ==
    [status |-> 200, success |-> TRUE, has_text |-> TRUE, text |-> file.extracted,
     message |-> "CV uploaded successfully", checked |-> FALSE,
     temp_file_exists |-> FALSE]

upload_cv(file) ==
    LET name == lower(file.filename)
    IN  IF endswith(name, ".pdf") \/ endswith(name, ".txt")
        THEN IF ~file.parses
             THEN \* the extractor raises: except Exception answers 500
                  [status |-> 500, success |-> FALSE, has_text |-> FALSE, text |-> "",
                   message |-> "Error processing file: " \o "cannot extract text",
                   checked |-> FALSE, temp_file_exists |-> TRUE]
             ELSE IF ~validity(file.extracted)
             THEN [status |-> 400, success |-> FALSE, has_text |-> FALSE, text |-> "",
                   message |-> INVALID_CV_MESSAGE,
                   checked |-> TRUE, temp_file_exists |-> FALSE]
             ELSE [status |-> 200, success |-> TRUE, has_text |-> TRUE,
                   text |-> file.extracted, message |-> "CV uploaded successfully",
                   checked |-> TRUE, temp_file_exists |-> FALSE]
        ELSE \* HTTPException(400) is raised inside the try: except Exception answers 500
             [status |-> 500, success |-> FALSE, has_text |-> FALSE, text |-> "",
              message |-> "Error processing file: "
                          \o http_exception_400(UNSUPPORTED_FORMAT_DETAIL),
              checked |-> FALSE, temp_file_exists |-> FALSE]

\* the feedback types of the requests, and those the UI's buttons send
FeedbackTypes == {"grammar", "experience", "layout", "summary"}
ButtonFeedbackTypes == {"grammar", "experience", "layout"}

\* the task of the feedback function a feedback type is routed to
task_of(feedback_type) ==
    CASE feedback_type = "grammar" -> GRAMMAR
      [] feedback_type = "experience" -> EXPERIENCE
      [] feedback_type = "layout" -> LAYOUT

\* the feedback function a request is routed to, and what it does
route(request, reg, vs, emb, outcome) ==
    CASE request.feedback_type = "grammar" ->
            get_grammar_feedback(request.text, reg, vs, emb, outcome)
      [] request.feedback_type = "experience" ->
            get_experience_feedback(request.text, reg, vs, emb, outcome)
      [] request.feedback_type = "layout" ->
            get_layout_feedback(request.text, reg, vs, emb, outcome)
      [] OTHER ->
            \* HTTPException(400) is raised inside the try
            [raised |-> http_exception_400(INVALID_TYPE_DETAIL), response |-> "",
             calls |-> <<>>, created |-> 0]

\* the response to a request whose feedback function has done r
respond(routed, r) ==
    IF r.raised = ""
    THEN [status |-> 200, feedback |-> r.response, detail |-> "",
          generate_called |-> routed, raised |-> r.raised, calls |-> r.calls,
          created |-> r.created]
    ELSE \* except Exception: HTTPException(500)
         [status |-> 500, feedback |-> "",
          detail |-> "Error generating feedback: " \o r.raised,
          generate_called |-> routed, raised |-> r.raised, calls |-> r.calls,
          created |-> r.created]

\* get_feedback: the request is routed to its feedback function and answered
get_feedback(request, reg, vs, emb, outcome) ==
    respond(request.feedback_type \in {"grammar", "experience", "layout"},
            route(request, reg, vs, emb, outcome))

(***************************************************************************)
(* The UI services and handlers (app/ui/services.py, handlers.py).         *)
(***************************************************************************)
UpperMap == [c \in CharsOf(LowerCase) |->
                Char(UpperCase, CHOOSE i \in 1..26 : Char(LowerCase, i) = c)]

upper_char(c) == IF c \in DOMAIN UpperMap THEN UpperMap[c] ELSE c

\* str.capitalize()
capitalize(s) ==
    IF s = "" THEN "" ELSE upper_char(Char(s, 1)) \o lower(SubSeq(s, 2, Len(s)))

\* CVUploadService.upload_cv_file: (success, message, cv_text) for the response
\* data of the API; the request fails when the file cannot be read or the API
\* does not answer
upload_cv_file(data, delivered) ==
    IF ~delivered
    THEN [success |-> FALSE, message |-> "Error processing file: " \o "request failed",
          cv_text |-> ""]
    ELSE IF data.status = 200 /\ data.success
    THEN [success |-> TRUE, message |-> "CV uploaded successfully",
          cv_text |-> IF data.has_text THEN data.text ELSE ""]
    ELSE [success |-> FALSE, message |-> data.message, cv_text |-> ""]

\* the body of an error response of the API
error_body(detail) == "{\"detail\":\"" \o detail \o "\"}"

\* FeedbackService.get_feedback: (success, feedback_text)
service_get_feedback(response, delivered) ==
    IF ~delivered
    THEN [success |-> FALSE, feedback |-> "Error: " \o "request failed"]
    ELSE IF response.status = 200
    THEN [success |-> TRUE, feedback |-> response.feedback]
    ELSE [success |-> FALSE, feedback |-> "Error: " \o error_body(response.detail)]

\* UIStateManager.__init__
InitialUIState ==
    [cv_text |-> "", is_cv_loaded |-> FALSE, current_feedback |-> "",
     last_feedback_type |-> "None"]

\* a set_cv_text that takes every non-empty text for a loaded CV
set_cv_text_unstripped(st, t) == [st EXCEPT !.cv_text = t, !.is_cv_loaded = (t # "")]

\* UIStateManager.set_cv_text
set_cv_text(st, t) == [st EXCEPT !.cv_text = t, !.is_cv_loaded = (strip(t) # "")]

\* a clear_cv that forgets the CV and keeps the feedback
clear_cv_keeping_feedback(st) == [st EXCEPT !.cv_text = "", !.is_cv_loaded = FALSE]

\* UIStateManager.clear_cv
clear_cv(st) ==
    [st EXCEPT !.cv_text = "", !.is_cv_loaded = FALSE, !.current_feedback = "",
               !.last_feedback_type = "None"]

\* UIStateManager.set_feedback
set_feedback(st, feedback, feedback_type) ==
    [st EXCEPT !.current_feedback = feedback, !.last_feedback_type = feedback_type]

\* a can_get_feedback that lets every request through
can_get_feedback_always(st) == TRUE

\* UIStateManager.can_get_feedback
can_get_feedback(st) == st.is_cv_loaded

\* the widgets the handlers write, as the view creates them
InitialWidgets ==
    [status_text |-> [value |-> "", color |-> "BLACK"],
     cv_preview |-> "",
     feedback_container_visible |-> FALSE,
     feedback_status |-> [value |-> "", color |-> "BLACK"],
     feedback_result |-> "",
     feedback_result_container_visible |-> FALSE]

(***************************************************************************)
(* Spec: the running program.  The API serves upload and feedback requests *)
(* of any client; the UI handlers send theirs through the UI services.     *)
(* Each handler runs from its call to its return in one step.              *)
(***************************************************************************)
NoTask == [cls |-> "", name |-> ""]
NoOutcome == [ok |-> FALSE, output |-> "", error |-> ""]

\* what the latest call did
NoLast ==
    [op |-> "none", origin |-> "", filename |-> "", text |-> "", feedback_type |-> "",
     task |-> NoTask, status |-> 0, success |-> FALSE, feedback |-> "", detail |-> "",
     raised |-> "", calls |-> <<>>, outcome |-> NoOutcome, created |-> 0,
     model |-> NoModel, generate_called |-> FALSE, checked |-> FALSE,
     temp_file_exists |-> FALSE, has_text |-> FALSE]

upload_record(origin, file, resp) ==
    [NoLast EXCEPT !.op = "upload_cv", !.origin = origin, !.filename = file.filename,
                   !.text = resp.text, !.status = resp.status, !.success = resp.success,
                   !.detail = resp.message, !.checked = resp.checked,
                   !.temp_file_exists = resp.temp_file_exists,
                   !.has_text = resp.has_text]

feedback_record(origin, request, outcome, resp) ==
    [NoLast EXCEPT !.op = "get_feedback", !.origin = origin, !.text = request.text,
                   !.feedback_type = request.feedback_type, !.status = resp.status,
                   !.success = (resp.status = 200), !.feedback = resp.feedback,
                   !.detail = resp.detail, !.raised = resp.raised, !.calls = resp.calls,
                   !.outcome = IF resp.calls = <<>> THEN NoOutcome ELSE outcome,
                   !.created = resp.created, !.generate_called = resp.generate_called]

\* the texts on which is_valid_cv has returned True
validated_after(resp, file) ==
    IF resp.checked /\ resp.status = 200 THEN validated \cup {file.extracted} ELSE validated

\* main.py runs the module imports, then starts the API server and the UI
serving_always(p) == TRUE

serving(p) == p = "serving"

\* an index to which every search adds the query
index_after_search_adding(vs) == Append(vs, "query")

\* vectorstore.similarity_search reads the index
index_after_search(vs) == vs

\* a lookup that resets the temperature of the configuration it has served
registry_after_lookup_rewriting(reg, task) ==
    [reg EXCEPT ![task] = [@ EXCEPT !.temperature = "0.0"]]

\* get_model_for_task reads MODEL_REGISTRY[task]; create_model reads the configuration
registry_after_lookup(reg, task) == reg

\* a chain that saves the prompt and the response in the conversation memory
memory_after_chain_saving(mem, calls, response) ==
    mem \o <<calls[1].prompt, response>>

\* LLMChain(llm=model, prompt=prompt, verbose=True) is built without the memory
memory_after_chain(mem, calls, response) == mem

\* before the imports of main.py: nothing of app.llm exists
Init ==
    /\ process = "importing"
    /\ index_builds = 0
    /\ registry = <<>>
    /\ vectorstore = <<>>
    /\ cv_memory = <<>>
    /\ embedding \in Embeddings
    /\ validated = {}
    /\ last = NoLast
    /\ state_manager = InitialUIState
    /\ widgets = InitialWidgets
    /\ searches = <<>>
    /\ requests = <<>>
    /\ ollama_client = "enforces request_timeout"
    /\ text = ""
    /\ pc = "idle"
    /\ is_valid = FALSE
    /\ scored = FALSE
    /\ cv_score = 0
    /\ non_cv_score = 0

\* main.py imports app.api.routes, which imports app.llm.chains: the module
\* body defines the registry and the memory and builds the index
ImportApp ==
    /\ process = "importing"
    /\ registry' = MODEL_REGISTRY
    /\ cv_memory' = <<>>
    /\ vectorstore' = initialize_rag
    /\ index_builds' = index_builds + 1
    /\ process' = "serving"
    /\ UNCHANGED <<embedding, validated, last, state_manager, widgets, other_vars>>

\* what a handled feedback request leaves of the registry, the index and the memory
after_feedback(request, resp) ==
    /\ registry' = IF resp.generate_called
                   THEN registry_after_lookup(registry, task_of(request.feedback_type))
                   ELSE registry
    /\ vectorstore' = IF resp.calls # <<>> THEN index_after_search(vectorstore)
                      ELSE vectorstore
    /\ cv_memory' = IF resp.calls # <<>>
                    THEN memory_after_chain(cv_memory, resp.calls, resp.feedback)
                    ELSE cv_memory

\* POST /api/v1/upload/cv by any client
upload_cv_request(file, resp) ==
    /\ last' = upload_record("api", file, resp)
    /\ validated' = validated_after(resp, file)
    /\ UNCHANGED <<registry, vectorstore, cv_memory, embedding, state_manager,
                   widgets, startup_vars, other_vars>>

ApiUploadCv ==
    /\ serving(process)
    /\ \E file \in Files : upload_cv_request(file, upload_cv(file))

\* POST /api/v1/feedback by any client
feedback_request(request, outcome, resp) ==
    /\ last' = feedback_record("api", request, outcome, resp)
    /\ after_feedback(request, resp)
    /\ UNCHANGED <<embedding, validated, state_manager, widgets, startup_vars,
                   other_vars>>

ApiGetFeedback ==
    /\ serving(process)
    /\ \E t \in RequestTexts, ft \in FeedbackTypes, outcome \in BackendOutcomes :
          feedback_request([text |-> t, feedback_type |-> ft], outcome,
                           get_feedback([text |-> t, feedback_type |-> ft], registry,
                                        vectorstore, embedding, outcome))

\* get_model_for_task called with any task identifier
lookup_record(task, m) ==
    [NoLast EXCEPT !.op = "get_model_for_task", !.task = task, !.raised = m.raised,
                   !.created = m.created, !.model = m.model,
                   !.success = (m.raised = "")]

lookup_request(task, m) ==
    /\ last' = lookup_record(task, m)
    /\ registry' = IF m.raised = "" THEN registry_after_lookup(registry, task)
                   ELSE registry
    /\ UNCHANGED <<vectorstore, cv_memory, embedding, validated, state_manager,
                   widgets, startup_vars, other_vars>>

CallGetModelForTask ==
    /\ serving(process)
    /\ \E task \in TaskIdentifiers :
          lookup_request(task, get_model_for_task(task, registry))

\* FileUploadHandler.handle_file_picked with no file in the event
HandleNoFilePicked ==
    /\ serving(process)
    /\ UNCHANGED <<registry, vectorstore, cv_memory, embedding, validated, last,
                   state_manager, widgets, startup_vars, other_vars>>

\* FileUploadHandler.handle_file_picked after upload_cv_file has returned r
show_upload(r) ==
    IF r.success
    THEN /\ state_manager' = set_cv_text(state_manager, r.cv_text)
         /\ widgets' =
              [widgets EXCEPT
                 !.cv_preview = r.cv_text,
                 !.feedback_container_visible = TRUE,
                 !.status_text =
                     [value |-> "CV uploaded successfully. Select feedback type below.",
                      color |-> "GREEN"]]
    ELSE /\ state_manager' = clear_cv(state_manager)
         /\ widgets' =
              [widgets EXCEPT
                 !.status_text = [value |-> "Error: " \o r.message, color |-> "RED"]]

\* FileUploadHandler.handle_file_picked with a file in the event; resp is the
\* API's response to the upload when the request is delivered
handle_file_picked(file, delivered, resp) ==
    /\ last' = IF delivered THEN upload_record("ui", file, resp) ELSE last
    /\ validated' = IF delivered THEN validated_after(resp, file) ELSE validated
    /\ show_upload(upload_cv_file(resp, delivered))
    /\ UNCHANGED <<registry, vectorstore, cv_memory, embedding, startup_vars, other_vars>>

HandleFilePicked ==
    /\ serving(process)
    /\ \E file \in Files, delivered \in BOOLEAN :
          handle_file_picked(file, delivered, upload_cv(file))

\* FeedbackHandler.get_feedback while no CV is loaded
FeedbackWithoutCv ==
    /\ serving(process)
    /\ ~can_get_feedback(state_manager)
    /\ widgets' = [widgets EXCEPT !.feedback_status =
                       [value |-> "Please upload a CV first", color |-> "RED"]]
    /\ UNCHANGED <<registry, vectorstore, cv_memory, embedding, validated, last,
                   state_manager, startup_vars, other_vars>>

\* FeedbackHandler.get_feedback after the feedback service has returned r
show_feedback(feedback_type, r) ==
    IF r.success
    THEN /\ state_manager' = set_feedback(state_manager, r.feedback, feedback_type)
         /\ widgets' =
              [widgets EXCEPT
                 !.feedback_result = r.feedback,
                 !.feedback_result_container_visible = TRUE,
                 !.feedback_status =
                     [value |-> capitalize(feedback_type) \o " feedback ready!",
                      color |-> "GREEN"]]
    ELSE /\ state_manager' = state_manager
         /\ widgets' =
              [widgets EXCEPT !.feedback_status = [value |-> r.feedback, color |-> "RED"]]

\* FeedbackHandler.get_feedback while a CV is loaded; resp is the API's response
\* to the request when the request is delivered
handle_get_feedback(request, outcome, delivered, resp) ==
    /\ last' = IF delivered THEN feedback_record("ui", request, outcome, resp) ELSE last
    /\ IF delivered THEN after_feedback(request, resp)
       ELSE UNCHANGED <<registry, vectorstore, cv_memory>>
    /\ show_feedback(request.feedback_type, service_get_feedback(resp, delivered))
    /\ UNCHANGED <<embedding, validated, startup_vars, other_vars>>

FeedbackForLoadedCv ==
    /\ serving(process)
    /\ can_get_feedback(state_manager)
    /\ \E ft \in ButtonFeedbackTypes, outcome \in BackendOutcomes, delivered \in BOOLEAN :
          handle_get_feedback([text |-> state_manager.cv_text, feedback_type |-> ft],
                              outcome, delivered,
                              get_feedback([text |-> state_manager.cv_text,
                                            feedback_type |-> ft],
                                           registry, vectorstore, embedding, outcome))

Next ==
    \/ ImportApp
    \/ ApiUploadCv
    \/ ApiGetFeedback
    \/ CallGetModelForTask
    \/ HandleNoFilePicked
    \/ HandleFilePicked
    \/ FeedbackWithoutCv
    \/ FeedbackForLoadedCv

Spec == Init /\ [][Next]_vars

(***************************************************************************)
(* The texts is_valid_cv is called on: up to MaxFragments distinct         *)
(* fragments in a row, in any order.                                       *)
(***************************************************************************)
MaxFragments == 3

Fragments == {
    "Doe, john@email.com ",
    "Experience: Software Developer ",
    "Chapter 1, page 12: Introduction to Python ",
    "lorem inexperienced skillset 5551234 ",
    "   \n  ",
    "555-123-4567 or 555.123.4567 ",
    "INVOICE payment terms and conditions " }

RECURSIVE TextsFrom(_, _)
TextsFrom(unused, n) ==
    IF n = 0 THEN {""}
    ELSE {""} \cup UNION {{f \o t : t \in TextsFrom(unused \ {f}, n - 1)} : f \in unused}

Texts == TextsFrom(Fragments, MaxFragments)

(***************************************************************************)
(* SpecValidate: is_valid_cv called once on any text.                      *)
(***************************************************************************)
InitValidate ==
    /\ text \in Texts
    /\ pc = "call"
    /\ is_valid = FALSE
    /\ scored = FALSE
    /\ cv_score = 0
    /\ non_cv_score = 0
    /\ registry = MODEL_REGISTRY
    /\ vectorstore = initialize_rag
    /\ cv_memory = <<>>
    /\ embedding = "with ties"
    /\ validated = {}
    /\ last = NoLast
    /\ state_manager = InitialUIState
    /\ widgets = InitialWidgets
    /\ process = "serving"
    /\ index_builds = 1
    /\ searches = <<>>
    /\ requests = <<>>
    /\ ollama_client = "enforces request_timeout"

CallIsValidCv ==
    /\ pc = "call"
    /\ LET r == is_valid_cv(text)
       IN  /\ is_valid' = r.valid
           /\ scored' = r.scored
           /\ cv_score' = r.cv_score
           /\ non_cv_score' = r.non_cv_score
    /\ pc' = "returned"
    /\ UNCHANGED <<text, program_vars, searches, requests, ollama_client>>

NextValidate == CallIsValidCv

SpecValidate == InitValidate /\ [][NextValidate]_vars

(***************************************************************************)
(* SpecNegative: is_valid_cv called once on a text built from fragments    *)
(* that carry the words of the negative indicator groups.                  *)
(***************************************************************************)
NegativeFragments == {
    "Doe, john@email.com ",
    "Experience: Software Developer ",
    "Abstract and conclusion of the article ",
    "Chapter 1, page 12: Introduction to Python ",
    "INVOICE payment terms and conditions ",
    "Dear reader, sincerely: the user guide " }

NegativeTexts == TextsFrom(NegativeFragments, MaxFragments)

InitNegative ==
    /\ text \in NegativeTexts
    /\ pc = "call"
    /\ is_valid = FALSE
    /\ scored = FALSE
    /\ cv_score = 0
    /\ non_cv_score = 0
    /\ registry = MODEL_REGISTRY
    /\ vectorstore = initialize_rag
    /\ cv_memory = <<>>
    /\ embedding = "with ties"
    /\ validated = {}
    /\ last = NoLast
    /\ state_manager = InitialUIState
    /\ widgets = InitialWidgets
    /\ process = "serving"
    /\ index_builds = 1
    /\ searches = <<>>
    /\ requests = <<>>
    /\ ollama_client = "enforces request_timeout"

SpecNegative == InitNegative /\ [][NextValidate]_vars

(***************************************************************************)
(* Specification SpecQuery: get_relevant_guidelines is called on the       *)
(* index built at import, with any of the queries and any k up to MaxK.    *)
(***************************************************************************)

\* the largest k of a call; the index holds fewer chunks
MaxK == 12

InitQuery ==
    /\ process = "serving"
    /\ index_builds = 1
    /\ registry = MODEL_REGISTRY
    /\ vectorstore = initialize_rag
    /\ cv_memory = <<>>
    /\ embedding \in Embeddings
    /\ validated = {}
    /\ last = NoLast
    /\ state_manager = InitialUIState
    /\ widgets = InitialWidgets
    /\ searches = <<>>
    /\ requests = <<>>
    /\ ollama_client = "enforces request_timeout"
    /\ text = ""
    /\ pc = "idle"
    /\ is_valid = FALSE
    /\ scored = FALSE
    /\ cv_score = 0
    /\ non_cv_score = 0

\* the latest two calls
latest_two(calls, call) ==
    IF Len(calls) < 2 THEN Append(calls, call) ELSE <<calls[2], call>>

search(query, k, docs) ==
    /\ searches' = latest_two(searches, [query |-> query, k |-> k, docs |-> docs])
    /\ vectorstore' = index_after_search(vectorstore)
    /\ UNCHANGED <<registry, cv_memory, embedding, validated, last, state_manager,
                   widgets, startup_vars, validate_vars, requests, ollama_client>>

CallGetRelevantGuidelines ==
    /\ serving(process)
    /\ \E q \in 1..Len(Queries), k \in 1..MaxK :
          search(Queries[q], k,
                 get_relevant_guidelines(vectorstore, embedding, Queries[q], k))

NextQuery == CallGetRelevantGuidelines

SpecQuery == InitQuery /\ [][NextQuery]_vars

(***************************************************************************)
(* Specification SpecConcurrent: several feedback requests are in flight   *)
(* and the statements of get_feedback and of the feedback functions run    *)
(* in any interleaving.                                                    *)
(***************************************************************************)

\* the number of requests in flight
MaxRequests == 2

Requests == 1..MaxRequests

NoResponse ==
    [status |-> 0, feedback |-> "", detail |-> "", generate_called |-> FALSE,
     raised |-> "", calls |-> <<>>, created |-> 0]

\* a request that has not arrived, with the locals of its handler
NoRequest ==
    [pc |-> "idle", text |-> "", feedback_type |-> "", model |-> NoModel, created |-> 0,
     guidelines_text |-> "", raised |-> "", reply |-> "", calls |-> <<>>,
     outcome |-> NoOutcome, response |-> NoResponse]

\* the constants of the three feedback functions
chain_of(feedback_type) ==
    CASE feedback_type = "grammar" ->
            [task |-> GRAMMAR, query |-> GRAMMAR_QUERY, template |-> grammar_template]
      [] feedback_type = "experience" ->
            [task |-> EXPERIENCE, query |-> EXPERIENCE_QUERY,
             template |-> experience_template]
      [] feedback_type = "layout" ->
            [task |-> LAYOUT, query |-> LAYOUT_QUERY, template |-> layout_template]

InitConcurrent ==
    /\ process = "serving"
    /\ index_builds = 1
    /\ registry = MODEL_REGISTRY
    /\ vectorstore = initialize_rag
    /\ cv_memory = <<>>
    /\ embedding = "with ties"
    /\ validated = {}
    /\ last = NoLast
    /\ state_manager = InitialUIState
    /\ widgets = InitialWidgets
    /\ searches = <<>>
    /\ requests = [r \in Requests |-> NoRequest]
    /\ ollama_client = "enforces request_timeout"
    /\ text = ""
    /\ pc = "idle"
    /\ is_valid = FALSE
    /\ scored = FALSE
    /\ cv_score = 0
    /\ non_cv_score = 0

\* what no statement of a feedback request touches
request_frame ==
    <<embedding, validated, last, state_manager, widgets, startup_vars, validate_vars,
      searches, ollama_client>>

\* POST /api/v1/feedback arrives: the handler is entered with the request
Receive(r) ==
    /\ requests[r].pc = "idle"
    /\ \E t \in RequestTexts, ft \in FeedbackTypes :
          requests' = [requests EXCEPT ![r] =
                          [@ EXCEPT !.pc = "route", !.text = t, !.feedback_type = ft]]
    /\ UNCHANGED <<registry, vectorstore, cv_memory, request_frame>>

\* get_feedback: the if/elif chain on feedback_type
Route(r) ==
    /\ requests[r].pc = "route"
    /\ requests' = [requests EXCEPT ![r] =
          IF @.feedback_type \in {"grammar", "experience", "layout"}
          THEN [@ EXCEPT !.pc = "lookup"]
          ELSE [@ EXCEPT !.pc = "respond",
                         !.raised = http_exception_400(INVALID_TYPE_DETAIL)]]
    /\ UNCHANGED <<registry, vectorstore, cv_memory, request_frame>>

\* the feedback function: model = get_model_for_task(task)
lookup_step(r, task, m) ==
    /\ requests' = [requests EXCEPT ![r] =
          IF m.raised = ""
          THEN [@ EXCEPT !.pc = "search", !.model = m.model, !.created = m.created]
          ELSE [@ EXCEPT !.pc = "respond", !.raised = m.raised]]
    /\ registry' = IF m.raised = "" THEN registry_after_lookup(registry, task)
                   ELSE registry
    /\ UNCHANGED <<vectorstore, cv_memory, request_frame>>

Lookup(r) ==
    /\ requests[r].pc = "lookup"
    /\ lookup_step(r, chain_of(requests[r].feedback_type).task,
                   get_model_for_task(chain_of(requests[r].feedback_type).task, registry))

\* the feedback function: guidelines = get_relevant_guidelines(query), joined
search_step(r, guidelines_text) ==
    /\ requests' = [requests EXCEPT ![r] =
                       [@ EXCEPT !.pc = "predict", !.guidelines_text = guidelines_text]]
    /\ vectorstore' = index_after_search(vectorstore)
    /\ UNCHANGED <<registry, cv_memory, request_frame>>

Search(r) ==
    /\ requests[r].pc = "search"
    /\ search_step(r, join("\n", get_relevant_guidelines(
                                     vectorstore, embedding,
                                     chain_of(requests[r].feedback_type).query,
                                     DEFAULT_K)))

\* the feedback function: the chain is built and chain.predict calls the
\* backend, which answers or fails with outcome
predict_step(r, outcome, p) ==
    /\ requests' = [requests EXCEPT ![r] =
                       [@ EXCEPT !.pc = "respond", !.outcome = outcome,
                                 !.calls = p.calls, !.raised = p.raised,
                                 !.reply = p.response]]
    /\ cv_memory' = memory_after_chain(cv_memory, p.calls, p.response)
    /\ UNCHANGED <<registry, vectorstore, request_frame>>

\* chain.predict has sent the call and the backend stays silent: the call does
\* not return
blocked_step(r) ==
    /\ requests' = [requests EXCEPT ![r] = [@ EXCEPT !.pc = "blocked in chain.predict"]]
    /\ UNCHANGED <<registry, vectorstore, cv_memory, request_frame>>

\* the client ends a call to a silent backend after the model's request_timeout
enforces_timeout(client, model) ==
    client = "enforces request_timeout" /\ model.request_timeout # ""

TIMEOUT == [ok |-> FALSE, output |-> "", error |-> "timeout"]

predict_values(r) ==
    [cv_text |-> requests[r].text, guidelines |-> requests[r].guidelines_text]

Predict(r) ==
    /\ requests[r].pc = "predict"
    /\ \/ \E outcome \in BackendOutcomes :
             predict_step(r, outcome,
                          predict(requests[r].model,
                                  chain_of(requests[r].feedback_type).template,
                                  predict_values(r), outcome))
       \/ \* the backend accepts the call and never answers
          IF enforces_timeout(ollama_client, requests[r].model)
          THEN predict_step(r, TIMEOUT,
                            predict(requests[r].model,
                                    chain_of(requests[r].feedback_type).template,
                                    predict_values(r), TIMEOUT))
          ELSE blocked_step(r)

\* get_feedback: return {"feedback": feedback}, or except Exception
Respond(r) ==
    /\ requests[r].pc = "respond"
    /\ requests' = [requests EXCEPT ![r] =
          [@ EXCEPT !.pc = "done",
                    !.response =
                        respond(requests[r].feedback_type
                                    \in {"grammar", "experience", "layout"},
                                [raised |-> requests[r].raised,
                                 response |-> requests[r].reply,
                                 calls |-> requests[r].calls,
                                 created |-> requests[r].created])]]
    /\ UNCHANGED <<registry, vectorstore, cv_memory, request_frame>>

NextConcurrent ==
    \E r \in Requests :
        \/ Receive(r)
        \/ Route(r)
        \/ Lookup(r)
        \/ Search(r)
        \/ Predict(r)
        \/ Respond(r)

SpecConcurrent == InitConcurrent /\ [][NextConcurrent]_vars

(***************************************************************************)
(* Specification SpecLive: one feedback request runs to its end, with an   *)
(* Ollama client that enforces the request_timeout of the model or one     *)
(* that ignores it.  The handler's statements are not delayed for ever.    *)
(***************************************************************************)

OllamaClients == {"enforces request_timeout", "ignores request_timeout"}

InitLive ==
    /\ process = "serving"
    /\ index_builds = 1
    /\ registry = MODEL_REGISTRY
    /\ vectorstore = initialize_rag
    /\ cv_memory = <<>>
    /\ embedding \in Embeddings
    /\ validated = {}
    /\ last = NoLast
    /\ state_manager = InitialUIState
    /\ widgets = InitialWidgets
    /\ searches = <<>>
    /\ requests = [r \in Requests |-> NoRequest]
    /\ ollama_client \in OllamaClients
    /\ text = ""
    /\ pc = "idle"
    /\ is_valid = FALSE
    /\ scored = FALSE
    /\ cv_score = 0
    /\ non_cv_score = 0

NextLive ==
    \/ Receive(1)
    \/ Route(1)
    \/ Lookup(1)
    \/ Search(1)
    \/ Predict(1)
    \/ Respond(1)

SpecLive == InitLive /\ [][NextLive]_vars /\ WF_vars(NextLive)

(***************************************************************************)
(* Specification SpecState: the methods of UIStateManager are called in    *)
(* any order with any arguments.                                           *)
(***************************************************************************)

\* the texts set_cv_text is called with
CvTexts ==
    {"", " ", " \n\t ", "\r\n", "John Doe", "  CV \n", "\tx", "Doe, john@email.com "}

\* the feedback texts set_feedback is called with
FeedbackTexts == {"", "Good.", "  The CV reads well.\n"}

InitState ==
    /\ process = "serving"
    /\ index_builds = 1
    /\ registry = MODEL_REGISTRY
    /\ vectorstore = initialize_rag
    /\ cv_memory = <<>>
    /\ embedding = "with ties"
    /\ validated = {}
    /\ last = NoLast
    /\ state_manager = InitialUIState
    /\ widgets = InitialWidgets
    /\ searches = <<>>
    /\ requests = <<>>
    /\ ollama_client = "enforces request_timeout"
    /\ text = ""
    /\ pc = "idle"
    /\ is_valid = FALSE
    /\ scored = FALSE
    /\ cv_score = 0
    /\ non_cv_score = 0

\* what the methods of UIStateManager do not touch
state_frame ==
    <<registry, vectorstore, cv_memory, embedding, validated, widgets, startup_vars,
      other_vars>>

CallSetCvText ==
    /\ \E t \in CvTexts :
          /\ state_manager' = set_cv_text(state_manager, t)
          /\ last' = [NoLast EXCEPT !.op = "set_cv_text", !.text = t]
    /\ UNCHANGED state_frame

CallClearCv ==
    /\ state_manager' = clear_cv(state_manager)
    /\ last' = [NoLast EXCEPT !.op = "clear_cv"]
    /\ UNCHANGED state_frame

CallSetFeedback ==
    /\ \E feedback \in FeedbackTexts, ft \in FeedbackTypes :
          /\ state_manager' = set_feedback(state_manager, feedback, ft)
          /\ last' = [NoLast EXCEPT !.op = "set_feedback", !.feedback = feedback,
                                    !.feedback_type = ft]
    /\ UNCHANGED state_frame

NextState ==
    \/ CallSetCvText
    \/ CallClearCv
    \/ CallSetFeedback

SpecState == InitState /\ [][NextState]_vars

(***************************************************************************)
(* Properties of is_valid_cv, checked under SpecValidate.                  *)
(***************************************************************************)
\* the length of s between its first and its last non-whitespace character
TrimmedLen(s) ==
    LET solid == {i \in 1..Len(s) : Char(s, i) \notin WhitespaceSet}
    IN  IF solid = {} THEN 0
        ELSE (CHOOSE j \in solid : \A i \in solid : i <= j)
             - (CHOOSE j \in solid : \A i \in solid : j <= i) + 1

\* the indicator groups of a list with at least one match in the lower-cased text
MatchedGroups(patterns, s) ==
    {i \in 1..Len(patterns) : re_search(patterns[i], Subject(lower(s)))}

PositiveGroups(s) == Cardinality(MatchedGroups(cv_indicators, s))
NegativeGroups(s) == Cardinality(MatchedGroups(non_cv_indicators, s))

\* C1: for a text of trimmed length >= 50, is_valid_cv returns valid iff at
\* least 2 positive groups match and fewer negative groups than positive
\* groups match (equal scores give invalid).
C1_ValidIffScores ==
    (pc = "returned" /\ TrimmedLen(text) >= 50) =>
        (is_valid <=> (/\ PositiveGroups(text) >= 2
                       /\ NegativeGroups(text) < PositiveGroups(text)))

\* C1 witness: a long text with 2 positive and 2 negative groups was judged invalid
C1_Witness ==
    /\ pc = "returned"
    /\ ~is_valid
    /\ TrimmedLen(text) >= 50
    /\ PositiveGroups(text) = 2
    /\ NegativeGroups(text) = 2

\* C2: an empty text or one of trimmed length below 50 is invalid whatever
\* indicator groups it contains.
C2_ShortIsInvalid ==
    (pc = "returned" /\ (text = "" \/ TrimmedLen(text) < 50)) => ~is_valid

\* C2 witness: a text of 50 or more characters, fewer than 50 once trimmed, with
\* 2 positive groups and no negative group, was judged invalid
C2_Witness ==
    /\ pc = "returned"
    /\ ~is_valid
    /\ Len(text) >= 50
    /\ TrimmedLen(text) < 50
    /\ PositiveGroups(text) >= 2
    /\ NegativeGroups(text) = 0

\* C3 as stated: every text with at least 2 positive groups and no negative
\* group is valid.
C3_TwoPositiveIsValid ==
    (pc = "returned" /\ PositiveGroups(text) >= 2 /\ NegativeGroups(text) = 0) => is_valid

\* C3 amended: every text of trimmed length >= 50 with at least 2 positive
\* groups and no negative group is valid.
C3_LongTwoPositiveIsValid ==
    (/\ pc = "returned"
     /\ TrimmedLen(text) >= 50
     /\ PositiveGroups(text) >= 2
     /\ NegativeGroups(text) = 0) => is_valid

\* C3 witness: a text of trimmed length exactly 50 with positive groups only was
\* judged valid
C3_Witness ==
    /\ pc = "returned"
    /\ is_valid
    /\ TrimmedLen(text) = 50
    /\ PositiveGroups(text) >= 2
    /\ NegativeGroups(text) = 0

\* C4: each group adds at most 1 to its score: cv_score is the number of
\* positive groups with a match, non_cv_score the number of negative groups
\* with a match, and both lie between 0 and the length of their list.
C4_ScoreCountsGroups ==
    (pc = "returned" /\ scored) =>
        /\ cv_score = PositiveGroups(text)
        /\ non_cv_score = NegativeGroups(text)
        /\ cv_score \in 0..Len(cv_indicators)
        /\ non_cv_score \in 0..Len(non_cv_indicators)

\* C4 witness: a scored text in which a positive group and a negative group each
\* match at several places
C4_Witness ==
    /\ pc = "returned"
    /\ scored
    /\ cv_score >= 1
    /\ non_cv_score >= 1
    /\ \E i \in 1..Len(cv_indicators) :
           Cardinality(MatchStarts(cv_indicators[i], Subject(lower(text)))) >= 2
    /\ \E i \in 1..Len(non_cv_indicators) :
           Cardinality(MatchStarts(non_cv_indicators[i], Subject(lower(text)))) >= 2

(***************************************************************************)
(* Properties of the running program, checked under Spec.                  *)
(***************************************************************************)
\* the latest call was a feedback request that reached a feedback function
FeedbackCalled == last.op = "get_feedback" /\ last.generate_called

\* the latest call was a feedback request whose feedback function called the backend
BackendCalled == FeedbackCalled /\ last.calls # <<>>

\* the task, the query phrase and the template that belong to a feedback type
TaskOf(feedback_type) ==
    CASE feedback_type = "grammar" -> GRAMMAR
      [] feedback_type = "experience" -> EXPERIENCE
      [] feedback_type = "layout" -> LAYOUT

QueryOf(feedback_type) ==
    CASE feedback_type = "grammar" -> "grammar mistakes in CV"
      [] feedback_type = "experience" -> "describing work experience in CV"
      [] feedback_type = "layout" -> "CV layout and structure"

TemplateOf(feedback_type) ==
    CASE feedback_type = "grammar" -> grammar_template
      [] feedback_type = "experience" -> experience_template
      [] feedback_type = "layout" -> layout_template

\* C5 as the spec states it: in every execution a feedback function runs only on
\* a text that is_valid_cv has found valid beforehand.
C5_GenerateOnlyAfterValidation ==
    FeedbackCalled => last.text \in validated

\* C5, amended: a feedback function called for a request of the UI's feedback
\* handler runs only on a text that is_valid_cv has found valid beforehand (a
\* request sent to POST /feedback by another client is not validated).
C5_UiGenerateOnlyAfterValidation ==
    (FeedbackCalled /\ last.origin = "ui") => last.text \in validated

\* the UI has generated feedback for a CV it uploaded, and a client has a
\* validated text at hand
C5_Witness ==
    /\ BackendCalled
    /\ last.origin = "ui"
    /\ last.text = CvB
    /\ validated = {CvA, CvB}
    /\ last.status = 200

\* C6 as the spec states it: the lookup of grammar, experience and layout succeeds
\* and returns a model with a non-empty identifier; the lookup of any other task
\* identifier fails with KeyError 'No model configured for task' and creates no
\* model.
C6_LookupSucceedsOrKeyError ==
    last.op = "get_model_for_task" =>
        IF last.task \in {GRAMMAR, EXPERIENCE, LAYOUT}
        THEN last.raised = "" /\ last.model.model # "" /\ last.created = 1
        ELSE /\ Len(last.raised) >= 8
             /\ SubSeq(last.raised, 1, 8) = "KeyError"
             /\ last.created = 0

\* C7 as the spec states it: the backend call of a feedback function carries
\* every parameter of the task's configuration: model identifier, temperature,
\* top-p, top-k, repeat penalty and stop sequences.
C7_BackendCallCarriesConfig ==
    BackendCalled =>
        \A n \in 1..Len(last.calls) :
            LET llm == last.calls[n].llm
                config == registry[TaskOf(last.feedback_type)]
            IN  /\ llm.model = config.name
                /\ \A p \in {"temperature", "top_p", "top_k", "repeat_penalty", "stop"} :
                       p \in DOMAIN llm /\ llm[p] = config[p]

\* the chunk sequences a search for the k nearest chunks may return: k different
\* chunks in the order of their distance, none farther than a chunk left out
TopChunks(emb, q, n, k) ==
    {docs \in [1..k -> 1..n] :
        /\ \A a, b \in 1..k : a < b =>
              /\ docs[a] # docs[b]
              /\ Distance(emb, q, docs[a]) <= Distance(emb, q, docs[b])
        /\ \A i \in 1..n :
              (\A a \in 1..k : docs[a] # i) =>
                  Distance(emb, q, docs[k]) <= Distance(emb, q, i)}

\* the top 3 chunks of each embedding and query
Top3 ==
    [emb \in Embeddings |->
        [q \in 1..Len(Queries) |->
            {docs : docs \in TopChunks(emb, q, Len(initialize_rag), 3)}]]

\* C8: the prompt handed to the backend is the template of the request's own
\* task with the CV text in it verbatim and, joined in ranked order, the texts of
\* the top 3 chunks for the task's query phrase.
C8_PromptHasCvAndTopGuidelines ==
    BackendCalled =>
        LET template == TemplateOf(last.feedback_type)
            q == query_number(QueryOf(last.feedback_type))
        IN  \A n \in 1..Len(last.calls) :
                \E docs \in Top3[embedding][q] :
                    last.calls[n].prompt =
                        template[1].lit
                        \o vectorstore[docs[1]] \o "\n" \o vectorstore[docs[2]] \o "\n"
                        \o vectorstore[docs[3]]
                        \o template[3].lit \o last.text \o template[5].lit

\* a layout prompt was built with an embedding under which chunks are equally
\* near the query
C8_Witness ==
    /\ BackendCalled
    /\ last.feedback_type = "layout"
    /\ embedding = "with ties"
    /\ last.text = CvA
    /\ Len(last.calls[1].prompt) > Len(CvA) + 3

\* C9: a feedback request ends in one of two ways: with status 200 and the
\* backend's output, character for character, as its feedback, or with a
\* failure and no feedback; the feedback the UI keeps is a backend output.
C9_OutputUnchangedOrFailure ==
    /\ last.op = "get_feedback" =>
          \/ /\ last.status = 200
             /\ last.raised = ""
             /\ last.generate_called
             /\ last.outcome.ok
             /\ last.feedback = last.outcome.output
          \/ /\ last.status = 500
             /\ last.raised # ""
             /\ last.feedback = ""
    /\ state_manager.current_feedback \in BackendOutputs \cup {""}

\* the backend's output, with its leading and trailing whitespace, has reached
\* the client and the UI state
C9_Witness ==
    /\ BackendCalled
    /\ last.status = 200
    /\ last.feedback = "  The CV reads well.\n"
    /\ strip(last.feedback) # last.feedback
    /\ state_manager.current_feedback = last.feedback

\* C10: when the backend fails, the feedback function fails with the backend's
\* error, which reaches the client in a 500 response without any feedback text;
\* no feedback request calls the backend more than once.
C10_BackendFailurePropagates ==
    /\ (BackendCalled /\ ~last.outcome.ok) =>
          /\ last.raised = last.outcome.error
          /\ last.status = 500
          /\ last.detail = "Error generating feedback: " \o last.outcome.error
          /\ last.feedback = ""
    /\ Len(last.calls) <= 1

\* the backend has timed out on the one call of a feedback request
C10_Witness ==
    /\ BackendCalled
    /\ last.outcome = [ok |-> FALSE, output |-> "", error |-> "timeout"]
    /\ Len(last.calls) = 1
    /\ last.status = 500


(***************************************************************************)
(* Claims about the guideline index (SpecQuery, Spec).                     *)
(***************************************************************************)

\* the place of a stored text in the index
chunk_number(vs, t) == CHOOSE i \in 1..Len(vs) : vs[i] = t

Min(a, b) == IF a < b THEN a ELSE b

C12_OneChunkPerGuideline ==
    serving(process) =>
        /\ Len(vectorstore) = Len(cv_guidelines)
        /\ \A i \in 1..Len(cv_guidelines) : vectorstore[i] = cv_guidelines[i]

\* C13: once built, the index never changes: whatever queries, validations,
\* uploads and feedback requests have run, it holds the chunks of the build, and
\* initialize_rag has run exactly once in the process.
C13_IndexBuiltOnceAndFixed ==
    /\ process = "importing" => index_builds = 0
    /\ process = "serving" => (index_builds = 1 /\ vectorstore = initialize_rag)

\* the UI has uploaded a CV and received feedback that searched the index
C13_Witness ==
    /\ last.op = "get_feedback"
    /\ last.origin = "ui"
    /\ last.calls # <<>>
    /\ validated # {}
    /\ index_builds = 1
    /\ Len(vectorstore) = 11

(***************************************************************************)
(* Claims about start-up, the registry and the memory (Spec).              *)
(***************************************************************************)

\* C14: nothing is served before the index is built: whenever a request of the
\* API, a lookup or a handler of the UI has left a trace, initialize_rag has
\* completed.
C14_NothingServedBeforeIndex ==
    (last # NoLast \/ validated # {} \/ state_manager # InitialUIState
     \/ widgets # InitialWidgets)
        => (index_builds >= 1 /\ vectorstore = initialize_rag)

\* the API has handled a feedback request that reached a feedback function
C14_Witness ==
    /\ last.op = "get_feedback"
    /\ last.origin = "api"
    /\ last.generate_called
    /\ index_builds = 1

\* C15: the registry's keys are exactly the grammar, experience and layout
\* tasks, and every entry is the configuration the module defines: no lookup
\* and no feedback call adds, removes or changes an entry or a field.
C15_RegistryFixed ==
    process = "serving" =>
        /\ DOMAIN registry = {GRAMMAR, EXPERIENCE, LAYOUT}
        /\ registry = MODEL_REGISTRY

\* a lookup of a registered task has created a model
C15_Witness ==
    /\ last.op = "get_model_for_task"
    /\ last.task = LAYOUT
    /\ last.created = 1
    /\ registry = MODEL_REGISTRY

C19_InvalidTypeIs400 ==
    (last.op = "get_feedback" /\ last.feedback_type \notin {"grammar", "experience", "layout"})
        => /\ last.status = 400
           /\ last.detail = INVALID_TYPE_DETAIL
           /\ ~last.generate_called

\* C20: an upload whose file name, in lower case, ends in neither .pdf nor .txt
\* is answered with status 400 and the "Unsupported file format" detail, and
\* its content is not validated.
C20_UnsupportedFormatIs400 ==
    (/\ last.op = "upload_cv"
     /\ ~endswith(lower(last.filename), ".pdf")
     /\ ~endswith(lower(last.filename), ".txt"))
        => /\ last.status = 400
           /\ last.detail = UNSUPPORTED_FORMAT_DETAIL
           /\ ~last.checked

(***************************************************************************)
(* Claims about requests in flight (SpecConcurrent).                       *)
(***************************************************************************)

\* C16: feedback requests in flight are independent: in every interleaving of
\* their statements the registry, the index and the memory stay as built (no
\* request writes state another one reads), and the response of every finished
\* request, with the prompt it sent to the backend, is the one get_feedback
\* gives for that request alone.
C16_RequestsIndependent ==
    /\ registry = MODEL_REGISTRY
    /\ vectorstore = initialize_rag
    /\ cv_memory = <<>>
    /\ \A r \in Requests :
          requests[r].pc = "done" =>
              requests[r].response =
                  get_feedback([text |-> requests[r].text,
                                feedback_type |-> requests[r].feedback_type],
                               MODEL_REGISTRY, initialize_rag, embedding,
                               requests[r].outcome)

\* one request has been answered with feedback while another, for a different
\* task and text, had already looked up its model and has since failed in the
\* backend
C16_Witness ==
    /\ requests[1].pc = "done"
    /\ requests[1].response.status = 200
    /\ requests[1].feedback_type = "grammar"
    /\ requests[2].pc = "done"
    /\ requests[2].feedback_type = "layout"
    /\ requests[2].text # requests[1].text
    /\ requests[2].response.status = 500
    /\ requests[2].calls # <<>>

\* C17: every feedback request eventually completes: once the handler has the
\* request, it ends with a response (feedback text or an error), because the
\* backend call is bounded by a timeout.
C17_EveryRequestCompletes ==
    (requests[1].pc = "route") ~> (requests[1].pc = "done")

(***************************************************************************)
(* Claims about uploads (Spec).                                            *)
(***************************************************************************)

\* the latest call was an upload of file f
Uploaded(f) == last.op = "upload_cv" /\ last.filename = f.filename

\* the file name, in lower case, ends in .pdf or .txt
Supported(f) ==
    endswith(lower(f.filename), ".pdf") \/ endswith(lower(f.filename), ".txt")

\* C21: for an uploaded .pdf or .txt file whose text is extracted, upload_cv
\* answers with status 200, success true and the extracted text when
\* is_valid_cv accepts the text, and with status 400, success false and no text
\* when is_valid_cv rejects it.
C21_UploadFollowsValidation ==
    \A f \in Files :
        (Uploaded(f) /\ Supported(f) /\ f.parses) =>
            IF validity(f.extracted)
            THEN /\ last.status = 200
                 /\ last.success
                 /\ last.has_text
                 /\ last.text = f.extracted
            ELSE /\ last.status = 400
                 /\ ~last.success
                 /\ ~last.has_text
                 /\ last.text = ""

\* the API has rejected a readable text file that is not a CV
C21_Witness ==
    /\ last.op = "upload_cv"
    /\ last.origin = "api"
    /\ last.filename = "notes.txt"
    /\ last.status = 400
    /\ last.checked

(***************************************************************************)
(* Claims about the negative indicator groups (SpecValidate).              *)
(***************************************************************************)

\* the negative groups with a match in the text
MatchedNegative(s) == MatchedGroups(non_cv_indicators, s)

\* the place of the academic-paper group (article, abstract, introduction,
\* conclusion) in non_cv_indicators
ACADEMIC == 2

\* C22: the negative groups are the five of book structure, letters,
\* financial, legal and manual terms: non_cv_score never exceeds 5, and a text
\* whose only non-CV-looking words are academic-paper terms has non_cv_score 0.
C22_FiveNegativeGroups ==
    (pc = "returned" /\ scored) =>
        /\ non_cv_score <= 5
        /\ MatchedNegative(text) = {ACADEMIC} => non_cv_score = 0

\* C22 as the code has it: there are six negative groups, the five named and
\* the academic-paper terms: non_cv_score never exceeds 6, it is the number of
\* the six groups with a match, and a text whose only non-CV-looking words are
\* academic-paper terms has non_cv_score 1.
C22_SixNegativeGroups ==
    /\ Len(non_cv_indicators) = 6
    /\ (pc = "returned" /\ scored) =>
          /\ non_cv_score <= 6
          /\ non_cv_score = Cardinality(MatchedNegative(text))
          /\ MatchedNegative(text) = {ACADEMIC} => non_cv_score = 1

\* a scored text with several academic-paper terms and no other negative word
C22_Witness ==
    /\ pc = "returned"
    /\ scored
    /\ MatchedNegative(text) = {ACADEMIC}
    /\ non_cv_score = 1
    /\ cv_score >= 2

\* C23: upload_cv has deleted its temporary file whenever it returns: after a
\* success, an invalid CV, an unsupported format and an exception raised by the
\* text extraction alike.
C23_TempFileDeleted ==
    last.op = "upload_cv" => ~last.temp_file_exists

(***************************************************************************)
(* Claims about the UI state and the widgets (Spec).                       *)
(***************************************************************************)

\* a step of handle_file_picked in which the upload failed: it is the only
\* handler that writes the status line, and it writes it in red on failure
UploadFailsInUi ==
    /\ widgets'.status_text # widgets.status_text
    /\ widgets'.status_text.color = "RED"

\* C24: when an upload fails in handle_file_picked the whole UI state is
\* reset, whatever CV and feedback were held: cv_text and current_feedback are
\* empty, is_cv_loaded is false and last_feedback_type is None; an event
\* without a file leaves the state as it is.
C24_FailedUploadResetsState ==
    [][/\ UploadFailsInUi =>
             /\ state_manager'.cv_text = ""
             /\ ~state_manager'.is_cv_loaded
             /\ state_manager'.current_feedback = ""
             /\ state_manager'.last_feedback_type = "None"
       /\ HandleNoFilePicked => state_manager' = state_manager]_vars

\* an upload has failed after a CV had been loaded and feedback shown for it
C24_Witness ==
    /\ widgets.status_text.color = "RED"
    /\ widgets.cv_preview # ""
    /\ widgets.feedback_result # ""
    /\ state_manager = InitialUIState

\* the text has a character that is not whitespace
HasSolidChar(s) == \E i \in 1..Len(s) : Char(s, i) \notin WhitespaceSet

\* C25: whatever calls of set_cv_text, clear_cv and set_feedback have been
\* made, is_cv_loaded is true exactly when cv_text has a non-whitespace
\* character, and a call of set_feedback changes neither cv_text nor
\* is_cv_loaded.
C25_LoadedIffSolidText ==
    /\ [](state_manager.is_cv_loaded <=> HasSolidChar(state_manager.cv_text))
    /\ [][last'.op = "set_feedback" =>
             /\ state_manager'.cv_text = state_manager.cv_text
             /\ state_manager'.is_cv_loaded = state_manager.is_cv_loaded]_vars

\* feedback was set while the CV text was whitespace only
C25_Witness ==
    /\ last.op = "set_feedback"
    /\ state_manager.cv_text = " \n\t "
    /\ ~state_manager.is_cv_loaded
    /\ state_manager.current_feedback = "Good."

\* a step of FeedbackHandler.get_feedback that has written the feedback status
\* line in red: the handler is the only writer of that line
FeedbackStatusTurnsRed ==
    /\ widgets'.feedback_status # widgets.feedback_status
    /\ widgets'.feedback_status.color = "RED"

\* C26: the UI's feedback handler sends a request only while a CV is loaded,
\* and a CV is loaded only while the latest upload of the UI succeeded with a
\* text the API accepted; without a CV it sends nothing, and neither then nor
\* when the service reports failure does it change the stored feedback and
\* feedback type.
C26_FeedbackOnlyForLoadedCv ==
    /\ [](state_manager.is_cv_loaded =>
             /\ state_manager.cv_text \in validated
             /\ widgets.status_text.color = "GREEN")
    /\ [][/\ (last' # last /\ last'.op = "get_feedback" /\ last'.origin = "ui") =>
                /\ state_manager.is_cv_loaded
                /\ last'.text = state_manager.cv_text
          /\ FeedbackStatusTurnsRed =>
                /\ state_manager'.current_feedback = state_manager.current_feedback
                /\ state_manager'.last_feedback_type = state_manager.last_feedback_type
          /\ (FeedbackStatusTurnsRed /\ ~state_manager.is_cv_loaded) =>
                /\ last' = last
                /\ widgets'.feedback_status.value = "Please upload a CV first"]_vars

\* the service has reported a failure for a loaded CV whose earlier feedback is
\* still stored
C26_Witness ==
    /\ last.op = "get_feedback"
    /\ last.origin = "ui"
    /\ last.status = 500
    /\ widgets.feedback_status.color = "RED"
    /\ state_manager.is_cv_loaded
    /\ state_manager.current_feedback # ""
    /\ state_manager.last_feedback_type # last.feedback_type

\* C27: what the UI shows agrees with the state after any file-picker events:
\* the feedback section is visible only if a CV is loaded, and the CV preview
\* shows state_manager.cv_text.
C27_WidgetsAgreeWithState ==
    /\ widgets.feedback_container_visible => state_manager.is_cv_loaded
    /\ widgets.cv_preview = state_manager.cv_text

====
